---- MODULE Spec2Model ----
(***************************************************************************)
(* A model of spamprobe.py: the tokenizer, the HTML body tokenizer, the    *)
(* message feature extractor, learn, probe and the cleanup subcommand.     *)
(* probe computes with Python floats (IEEE-754 binary64); the model keeps  *)
(* that arithmetic, correctly rounded, on arbitrary-precision naturals.    *)
(***************************************************************************)
EXTENDS Integers, Sequences, FiniteSets

\* F applied to the values of its arguments: Python evaluates the operands of
\* an operator, and the arguments of a call, once and before it applies it.
Eager1(F(_), x0) == CHOOSE v \in {F(x) : x \in {x0}} : TRUE

Eager2(F(_, _), x0, y0) == CHOOSE v \in {F(x, y) : x \in {x0}, y \in {y0}} : TRUE

Eager3(F(_, _, _), x0, y0, z0) ==
    CHOOSE v \in {F(x, y, z) : x \in {x0}, y \in {y0}, z \in {z0}} : TRUE

Eager4(F(_, _, _, _), x0, y0, z0, w0) ==
    CHOOSE v \in {F(x, y, z, w) : x \in {x0}, y \in {y0}, z \in {z0}, w \in {w0}} : TRUE

(***************************************************************************)
(* Arbitrary-precision naturals: little-endian sequences of limbs in       *)
(* 0 .. Base-1, with no leading zero limb; <<>> is zero.                   *)
(***************************************************************************)
Base == 2^15

RECURSIVE BitLenSmall(_)
BitLenSmall(x) == IF x = 0 THEN 0 ELSE 1 + BitLenSmall(x \div 2)

LimbBits == BitLenSmall(Base) - 1

\* a without its leading zero limbs
BNorm(a0) ==
    Eager1(LAMBDA a :
               IF \A i \in 1..Len(a) : a[i] = 0 THEN <<>>
               ELSE SubSeq(a, 1, CHOOSE n \in 1..Len(a) :
                                     a[n] # 0 /\ \A j \in (n + 1)..Len(a) : a[j] = 0),
           a0)

BFromInt(n) ==
    IF n = 0 THEN <<>>
    ELSE IF n < Base THEN <<n>>
    ELSE BNorm(<<n % Base, (n \div Base) % Base, n \div (Base * Base)>>)

Limb(a, i) == IF i <= Len(a) THEN a[i] ELSE 0

RECURSIVE BAddC(_, _, _, _)
BAddC(a, b, i, c) ==
    IF i > Len(a) /\ i > Len(b)
    THEN (IF c = 0 THEN <<>> ELSE <<c>>)
    ELSE Eager1(LAMBDA x : <<x % Base>> \o BAddC(a, b, i + 1, x \div Base),
                Limb(a, i) + Limb(b, i) + c)

BAdd(a0, b0) == Eager2(LAMBDA a, b : BAddC(a, b, 1, 0), a0, b0)

RECURSIVE BSubC(_, _, _, _)
BSubC(a, b, i, c) ==
    IF i > Len(a) THEN <<>>
    ELSE Eager1(LAMBDA x : IF x < 0 THEN <<x + Base>> \o BSubC(a, b, i + 1, 1)
                                    ELSE <<x>> \o BSubC(a, b, i + 1, 0),
                a[i] - Limb(b, i) - c)

\* a - b for a >= b
BSub(a0, b0) == Eager2(LAMBDA a, b : BNorm(BSubC(a, b, 1, 0)), a0, b0)

RECURSIVE BCmpAt(_, _, _)
BCmpAt(a, b, i) ==
    IF i = 0 THEN 0
    ELSE IF a[i] < b[i] THEN -1
    ELSE IF a[i] > b[i] THEN 1
    ELSE BCmpAt(a, b, i - 1)

\* -1, 0 or 1 as a < b, a = b, a > b
BCmp(a0, b0) ==
    Eager2(LAMBDA a, b : IF Len(a) < Len(b) THEN -1
                         ELSE IF Len(a) > Len(b) THEN 1
                         ELSE BCmpAt(a, b, Len(a)),
           a0, b0)

RECURSIVE BMulSmallC(_, _, _, _)
BMulSmallC(a, k, i, c) ==
    IF i > Len(a) THEN (IF c = 0 THEN <<>> ELSE <<c>>)
    ELSE Eager1(LAMBDA x : <<x % Base>> \o BMulSmallC(a, k, i + 1, x \div Base),
                a[i] * k + c)

\* a * k for 0 <= k <= Base
BMulSmall(a0, k0) ==
    Eager2(LAMBDA a, k : IF k = 0 THEN <<>> ELSE BMulSmallC(a, k, 1, 0), a0, k0)

\* a * Base^n
BShiftLimbs(a0, n0) ==
    Eager2(LAMBDA a, n : IF a = <<>> THEN a ELSE [i \in 1..n |-> 0] \o a, a0, n0)

RECURSIVE BMul(_, _)
BMul(a0, b0) ==
    Eager2(LAMBDA a, b :
               IF b = <<>> \/ a = <<>> THEN <<>>
               ELSE BAdd(BMulSmall(a, b[1]), BShiftLimbs(BMul(a, Tail(b)), 1)),
           a0, b0)

\* a * 2^n
BShl(a0, n0) ==
    Eager2(LAMBDA a, n : BShiftLimbs(BMulSmall(a, 2^(n % LimbBits)), n \div LimbBits),
           a0, n0)

RECURSIVE BDivSmallC(_, _, _, _)
BDivSmallC(a, k, i, r) ==
    IF i = 0 THEN <<>>
    ELSE Eager1(LAMBDA x : BDivSmallC(a, k, i - 1, x % k) \o <<x \div k>>,
                r * Base + a[i])

\* floor(a / 2^n)
BShr(a0, n0) ==
    Eager2(LAMBDA a, n :
               Eager1(LAMBDA t : BNorm(BDivSmallC(t, 2^(n % LimbBits), Len(t), 0)),
                      IF n \div LimbBits >= Len(a) THEN <<>>
                      ELSE SubSeq(a, n \div LimbBits + 1, Len(a))),
           a0, n0)

BBitLen(a0) ==
    Eager1(LAMBDA a : IF a = <<>> THEN 0
                      ELSE LimbBits * (Len(a) - 1) + BitLenSmall(a[Len(a)]),
           a0)

\* bit n of a (bit 0 is the least significant)
BTestBit(a0, n0) ==
    Eager2(LAMBDA a, n : (Limb(a, n \div LimbBits + 1) \div 2^(n % LimbBits)) % 2 = 1,
           a0, n0)

\* some bit of a below bit n is set
BLowNonzero(a0, n0) ==
    Eager2(LAMBDA a, n :
               \/ \E i \in 1..Len(a) : i <= n \div LimbBits /\ a[i] # 0
               \/ Limb(a, n \div LimbBits + 1) % 2^(n % LimbBits) # 0,
           a0, n0)

BIsOdd(a0) == Eager1(LAMBDA a : a # <<>> /\ a[1] % 2 = 1, a0)

(***************************************************************************)
(* Python floats: IEEE-754 binary64, round to nearest, ties to even.  A    *)
(* float is [sgn, m, e] with value sgn * m * 2^e; a normal number has a    *)
(* mantissa of MantBits bits, a subnormal one a shorter mantissa and       *)
(* e = EMin; zero is FZero.  Infinities are out of reach: every value of   *)
(* probe is a quotient or product of stored counts and ledger totals.      *)
(***************************************************************************)
MantBits == 53

EMin == -1074

FZero == [sgn |-> 0, m |-> <<>>, e |-> 0]

\* m * 2^e with m of at most MantBits bits, in the canonical form
FCanon(sgn0, m0, e0) ==
    Eager3(LAMBDA sgn, m, e :
               Eager1(LAMBDA up : [sgn |-> sgn, m |-> BShl(m, up), e |-> e - up],
                      IF e - (MantBits - BBitLen(m)) >= EMin
                      THEN MantBits - BBitLen(m) ELSE e - EMin),
           sgn0, m0, e0)

\* q * 2^E rounded up or not, q having at most MantBits bits
FRoundUp(sgn0, q0, up0, E0) ==
    Eager4(LAMBDA sgn, q, up, E :
               Eager1(LAMBDA r : IF r = <<>> THEN FZero
                                 ELSE IF BBitLen(r) > MantBits
                                      THEN FCanon(sgn, BShr(r, 1), E + 1)
                                      ELSE FCanon(sgn, r, E),
                      IF up THEN BAdd(q, <<1>>) ELSE q),
           sgn0, q0, up0, E0)

\* the float nearest to sgn * (M + f) * 2^E, where 0 <= f < 1 and sticky
\* tells f # 0; a sticky caller hands over at least MantBits + 2 bits
FRound(sgn0, M0, E0, sticky0) ==
    Eager4(LAMBDA sgn, M, E, sticky :
               IF M = <<>> /\ ~sticky THEN FZero
               ELSE Eager1(LAMBDA shift :
                               IF shift <= 0 THEN FCanon(sgn, M, E)
                               ELSE FRoundUp(sgn, BShr(M, shift),
                                             /\ BTestBit(M, shift - 1)
                                             /\ \/ sticky
                                                \/ BLowNonzero(M, shift - 1)
                                                \/ BIsOdd(BShr(M, shift)),
                                             E + shift),
                           IF BBitLen(M) - MantBits > EMin - E
                           THEN BBitLen(M) - MantBits ELSE EMin - E),
           sgn0, M0, E0, sticky0)

\* int -> float, for 0 <= n < 2^31
FFromInt(n0) == Eager1(LAMBDA n : IF n = 0 THEN FZero ELSE FCanon(1, BFromInt(n), 0), n0)

FNeg(x0) == Eager1(LAMBDA x : [x EXCEPT !.sgn = 0 - x.sgn], x0)

\* x * y
FMul(x0, y0) ==
    Eager2(LAMBDA x, y :
               IF x.sgn = 0 \/ y.sgn = 0 THEN FZero
               ELSE FRound(x.sgn * y.sgn, BMul(x.m, y.m), x.e + y.e, FALSE),
           x0, y0)

\* sx * X * 2^e + sy * Y * 2^e
FAddAligned(sx0, X0, sy0, Y0) ==
    Eager4(LAMBDA sx, X, sy, Y :
               IF sx = sy THEN <<sx, BAdd(X, Y)>>
               ELSE IF BCmp(X, Y) = 0 THEN <<0, <<>> >>
               ELSE IF BCmp(X, Y) > 0 THEN <<sx, BSub(X, Y)>>
               ELSE <<sy, BSub(Y, X)>>,
           sx0, X0, sy0, Y0)

\* x + y
FAdd(x0, y0) ==
    Eager2(LAMBDA x, y :
               IF x.sgn = 0 THEN y
               ELSE IF y.sgn = 0 THEN x
               ELSE Eager1(LAMBDA e :
                               Eager1(LAMBDA s : FRound(s[1], s[2], e, FALSE),
                                      FAddAligned(x.sgn, BShl(x.m, x.e - e),
                                                  y.sgn, BShl(y.m, y.e - e))),
                           IF x.e < y.e THEN x.e ELSE y.e),
           x0, y0)

\* x - y
FSub(x, y) == FAdd(x, FNeg(y))

\* One limb of a long division (Knuth's algorithm D): for b of n limbs whose
\* top limb is at least Base/2, and r < b * Base, the quotient digit
\* floor(r / b) is at most two below the estimate made from the top limbs.
DivDigit(r0, b0) ==
    Eager2(LAMBDA r, b :
               Eager1(LAMBDA hi : CHOOSE d \in {hi - 2, hi - 1, hi} :
                                      /\ d >= 0
                                      /\ BCmp(BMulSmall(b, d), r) <= 0
                                      /\ BCmp(BMulSmall(b, d + 1), r) > 0,
                      IF (Limb(r, Len(b) + 1) * Base + Limb(r, Len(b))) \div b[Len(b)]
                             > Base - 1
                      THEN Base - 1
                      ELSE (Limb(r, Len(b) + 1) * Base + Limb(r, Len(b))) \div b[Len(b)]),
           r0, b0)

\* k limbs of the quotient r / b for r < b, most significant first:
\* <<the limbs, little-endian, the remainder>>
RECURSIVE DivLimbs(_, _, _)
DivLimbs(r0, b0, k0) ==
    Eager3(LAMBDA r, b, k :
               IF k = 0 THEN <<(<<>>), r>>
               ELSE Eager1(LAMBDA d :
                               Eager1(LAMBDA rest : <<rest[1] \o <<d>>, rest[2]>>,
                                      DivLimbs(BSub(BShiftLimbs(r, 1), BMulSmall(b, d)),
                                               b, k - 1)),
                           DivDigit(BShiftLimbs(r, 1), b)),
           r0, b0, k0)

\* A / B * 2^(-k * LimbBits) for A and B of k limbs with the top bit set:
\* <<the quotient's bits, whether a remainder is left>>
DivAligned(A0, B0, k0) ==
    Eager3(LAMBDA A, B, k :
               Eager1(LAMBDA q :
                          Eager1(LAMBDA d : <<BNorm(d[1] \o <<q>>), d[2] # <<>> >>,
                                 DivLimbs(IF q = 1 THEN BSub(A, B) ELSE A, B, k)),
                      IF BCmp(A, B) >= 0 THEN 1 ELSE 0),
           A0, B0, k0)

\* x / y for y # 0
FDiv(x0, y0) ==
    Eager2(LAMBDA x, y :
               IF x.sgn = 0 THEN FZero
               ELSE LET k == 4
                        sa == k * LimbBits - BBitLen(x.m)
                        sb == k * LimbBits - BBitLen(y.m)
                    IN  Eager1(LAMBDA Q : FRound(x.sgn * y.sgn, Q[1],
                                                 (x.e - sa) - (y.e - sb) - k * LimbBits,
                                                 Q[2]),
                               DivAligned(BShl(x.m, sa), BShl(y.m, sb), k)),
           x0, y0)

\* x < y
FLess(x0, y0) ==
    Eager2(LAMBDA x, y :
               IF x.sgn # y.sgn THEN x.sgn < y.sgn
               ELSE IF x.sgn = 0 THEN FALSE
               ELSE LET lt == x.e < y.e \/ (x.e = y.e /\ BCmp(x.m, y.m) < 0)
                        gt == x.e > y.e \/ (x.e = y.e /\ BCmp(x.m, y.m) > 0)
                    IN  IF x.sgn = 1 THEN lt ELSE gt,
           x0, y0)

FMin(x0, y0) == Eager2(LAMBDA x, y : IF FLess(y, x) THEN y ELSE x, x0, y0)

FMax(x0, y0) == Eager2(LAMBDA x, y : IF FLess(x, y) THEN y ELSE x, x0, y0)

(***************************************************************************)
(* Text.  A str is a sequence of one-character strings; tokens and keys of *)
(* the stores are the strings Str makes of them.  A value that may be None  *)
(* is None or Some(v).                                                     *)
(***************************************************************************)
None == <<>>

Some(v) == <<v>>

\* the name of the exception a call raised, NoError when it returned
NoError == "none"

Letters ==
    {"a", "b", "c", "d", "e", "f", "g", "h", "i", "j", "k", "l", "m", "n",
     "o", "p", "q", "r", "s", "t", "u", "v", "w", "x", "y", "z",
     "A", "D", "F", "I", "M", "R", "S", "T", "X"}

Digits == {"0", "1", "2", "3", "4", "5", "6", "7", "8", "9"}

\* the characters the regular expression class \w matches
WordChars == Letters \cup Digits \cup {"_"}

\* str(v): the characters joined
RECURSIVE Str(_)
Str(t) == IF t = <<>> THEN "" ELSE t[1] \o Str(Tail(t))

\* _text_parse from character i on, cur being the run of word characters
\* read so far and n its length: re.split(r"\W+", text) cuts at every run of
\* non-word characters, and only the pieces longer than 3 are kept
RECURSIVE TextParseFrom(_, _, _, _)
TextParseFrom(text, i, cur, n) ==
    LET piece == IF n > 3 THEN <<cur>> ELSE <<>>
    IN  IF i > Len(text) THEN piece
        ELSE IF text[i] \in WordChars
             THEN TextParseFrom(text, i + 1, cur \o text[i], n + 1)
             ELSE piece \o TextParseFrom(text, i + 1, "", 0)

_text_parse(text) == TextParseFrom(text, 1, "", 0)

(***************************************************************************)
(* The HTML body tokenizer.  html.parser.HTMLParser cuts the markup into   *)
(* events and calls one handler per event; an html body is the sequence of *)
(* its events, [type, tag, attrs, data].                                   *)
(***************************************************************************)
StartTag(tag, attrs) == [type |-> "start", tag |-> tag, attrs |-> attrs, data |-> <<>>]

EndTag(tag) == [type |-> "end", tag |-> tag, attrs |-> <<>>, data |-> <<>>]

Data(text) == [type |-> "data", tag |-> "", attrs |-> <<>>, data |-> text]

\* _MyHTMLParser.__init__
NewParser == [words |-> <<>>, ignore |-> 0]

\* the loop over attrs in handle_starttag
RECURSIVE AltWords(_)
AltWords(attrs) ==
    IF attrs = <<>> THEN <<>>
    ELSE (IF attrs[1][1] = "alt" THEN _text_parse(attrs[1][2]) ELSE <<>>)
         \o AltWords(Tail(attrs))

handle_starttag(self, tag, attrs) ==
    LET ignore == IF tag \in {"script", "template"} THEN self.ignore + 1 ELSE self.ignore
        words == IF tag = "img" THEN self.words \o AltWords(attrs) ELSE self.words
    IN  [words |-> words, ignore |-> ignore]

handle_endtag(self, tag) ==
    IF tag \in {"script", "template"} THEN [self EXCEPT !.ignore = self.ignore - 1] ELSE self

handle_data(self, data) ==
    IF self.ignore = 0 THEN [self EXCEPT !.words = self.words \o _text_parse(data)] ELSE self

\* the handler HTMLParser calls for one event
Handle(self, ev) ==
    IF ev.type = "start" THEN handle_starttag(self, ev.tag, ev.attrs)
    ELSE IF ev.type = "end" THEN handle_endtag(self, ev.tag)
    ELSE handle_data(self, ev.data)

RECURSIVE Feed(_, _)
Feed(self, events) ==
    IF events = <<>> THEN self ELSE Feed(Handle(self, events[1]), Tail(events))

_html_parse(html) == Feed(NewParser, html).words

(***************************************************************************)
(* The message feature extractor.  A message is [headers, parts, hour]:    *)
(* headers the sequence of <<name, value>> mail.items() gives, parts the   *)
(* sequence mail.walk() gives, each [ctype, content], and hour what        *)
(* mail["Date"].datetime.astimezone().hour gives, None when that raises    *)
(* (no Date header, or one that does not parse).                           *)
(***************************************************************************)
\* mail.get(name): the first header of that name, or None
RECURSIVE Header(_, _)
Header(headers, name) ==
    IF headers = <<>> THEN None
    ELSE IF Str(headers[1][1]) = name THEN Some(headers[1][2])
    ELSE Header(Tail(headers), name)

\* "%s" % v
Fmt(v) == IF v = None THEN "None" ELSE Str(v[1])

\* the loop over mail.walk(): <<html, plain>>, the last part of each kind
RECURSIVE Bodies(_, _, _)
Bodies(parts, html, plain) ==
    IF parts = <<>> THEN <<html, plain>>
    ELSE IF parts[1].ctype = "text/html"
         THEN Bodies(Tail(parts), Some(parts[1].content), plain)
    ELSE IF parts[1].ctype = "text/plain"
         THEN Bodies(Tail(parts), html, Some(parts[1].content))
    ELSE Bodies(Tail(parts), html, plain)

\* k.startswith("X-")
StartsWithX(k) == Len(k) >= 2 /\ k[1] = "X" /\ k[2] = "-"

\* the loop over mail.items()
RECURSIVE HeaderWords(_)
HeaderWords(headers) ==
    IF headers = <<>> THEN <<>>
    ELSE LET k == headers[1][1]
             v == headers[1][2]
         IN  (IF Str(k) \in {"Subject", "From", "Reply-To"} THEN _text_parse(v) ELSE <<>>)
             \o (IF StartsWithX(k) THEN _text_parse(v) \o <<Str(k)>> ELSE <<>>)
             \o HeaderWords(Tail(headers))

\* the try block on the Date header: the except clause swallows the failure
DateWords(hour) ==
    IF hour = None THEN <<>>
    ELSE IF hour[1] < 8 THEN <<"Date*overnight">>
    ELSE IF hour[1] >= 8 /\ hour[1] < 17 THEN <<"Date*business">>
    ELSE <<"Date*evening">>

\* [raised, words]: an empty html body is falsy, so the last branch hands
\* plain = None to _text_parse and re.split raises TypeError
_process_mail(mail) ==
    LET b == Bodies(mail.parts, None, None)
        html == b[1]
        plain == b[2]
    IN  IF html = None /\ plain = None THEN [raised |-> NoError, words |-> <<>>]
        ELSE IF html # None /\ html[1] # <<>> /\ plain = None
             THEN [raised |-> NoError,
                   words |-> _html_parse(html[1]) \o HeaderWords(mail.headers)
                             \o DateWords(mail.hour)]
        ELSE IF plain = None THEN [raised |-> "TypeError", words |-> <<>>]
        ELSE [raised |-> NoError,
              words |-> _text_parse(plain[1]) \o HeaderWords(mail.headers)
                        \o DateWords(mail.hour)]

(***************************************************************************)
(* The messages of the model.                                              *)
(***************************************************************************)
MailNames == {"m1", "m2", "m3", "m4", "m5"}

NameMessageID == <<"M", "e", "s", "s", "a", "g", "e", "-", "I", "D">>

NameSubject == <<"S", "u", "b", "j", "e", "c", "t">>

NameFrom == <<"F", "r", "o", "m">>

NameDate == <<"D", "a", "t", "e">>

NameXAd == <<"X", "-", "A", "d">>

TextId1 == <<"i", "d", "1">>

TextId2 == <<"i", "d", "2">>

TextCheapPills == <<"c", "h", "e", "a", "p", " ", "p", "i", "l", "l", "s">>

TextBob == <<"b", "o", "b">>

TextAnn == <<"a", "n", "n">>

TextD1 == <<"d", "1">>

TextD3 == <<"d", "3">>

TextCheap == <<"c", "h", "e", "a", "p">>

TextPills == <<"p", "i", "l", "l", "s">>

TextBody1 == <<"p", "i", "l", "l", "s", " ", "p", "i", "l", "l", "s", ",", " ", "p", "i", "l", "l", "s", "!">>

TextMeetCheap == <<"m", "e", "e", "t", " ", "c", "h", "e", "a", "p">>

TextBody3 == <<"m", "e", "e", "t", " ", "c", "h", "e", "a", "p", " ", "m", "e", "e", "t">>

PlainPart(text) == [ctype |-> "text/plain", content |-> text]

HtmlPart(events) == [ctype |-> "text/html", content |-> events]

\* Message-ID id1, a plain body with a repeated word, a Date at 10 o'clock
Mail1 ==
    [headers |-> <<<<NameMessageID, TextId1>>, <<NameSubject, TextCheapPills>>, <<NameFrom, TextBob>>, <<NameDate, TextD1>>>>,
     parts |-> <<PlainPart(TextBody1)>>,
     hour |-> Some(10)]

\* Message-ID id2, an html body only, an X- header, no Date
Mail2 ==
    [headers |-> <<<<NameMessageID, TextId2>>, <<NameXAd, TextCheap>>>>,
     parts |-> <<HtmlPart(<<StartTag("p", <<>>), Data(TextMeetCheap), EndTag("p"),
                           StartTag("script", <<>>), Data(TextPills), EndTag("script"),
                           StartTag("img", <<<<"alt", TextPills>>>>)>>)>>,
     hour |-> None]

\* no Message-ID, a plain body, a Date at 20 o'clock
Mail3 ==
    [headers |-> <<<<NameDate, TextD3>>, <<NameFrom, TextAnn>>>>,
     parts |-> <<PlainPart(TextBody3)>>,
     hour |-> Some(20)]

\* Message-ID id1 again, no body
Mail4 ==
    [headers |-> <<<<NameMessageID, TextId1>>, <<NameSubject, TextCheapPills>>>>,
     parts |-> <<>>,
     hour |-> None]

\* Message-ID id2 again, an empty html body
Mail5 ==
    [headers |-> <<<<NameMessageID, TextId2>>>>,
     parts |-> <<HtmlPart(<<>>)>>,
     hour |-> None]

Mail(name) ==
    CASE name = "m1" -> Mail1
      [] name = "m2" -> Mail2
      [] name = "m3" -> Mail3
      [] name = "m4" -> Mail4
      [] name = "m5" -> Mail5

(***************************************************************************)
(* learn.  words_db maps a token to <<last seen day, spam_no, ham_no>> and *)
(* msg_db a message identifier to its label, TRUE for spam.                *)
(***************************************************************************)
\* the names the module binds at its top level
ModuleGlobals ==
    {"traceback", "shelve", "email", "default", "sys", "os", "datetime", "re",
     "argparse", "HTMLParser", "_MyHTMLParser", "_html_parse", "_today",
     "_text_parse", "_process_mail", "learn", "probe"}

\* the names bound when the file runs as a script
MainGlobals ==
    ModuleGlobals \cup {"cmd_dump", "cmd_cleanup", "cmd_probe", "cmd_learn",
                        "get_files", "ap", "subparsers", "ap1", "ap2", "ap3",
                        "ap4", "g", "args"}

\* d[k] = v
DictSet(d, k, v) == [x \in DOMAIN d \cup {k} |-> IF x = k THEN v ELSE d[x]]

EmptyDict == [x \in {} |-> 0]

Max(a, b) == IF a > b THEN a ELSE b

\* msg_id of learn
MsgId(mail) ==
    LET id == Header(mail.headers, "Message-ID")
    IN  IF id = None
        THEN Fmt(Header(mail.headers, "Date")) \o "/" \o Fmt(Header(mail.headers, "From"))
        ELSE Str(id[1])

\* the call today() in learn: Python looks the name up in the module's
\* globals, which bind _today and no today
CallToday(day) ==
    IF "today" \in ModuleGlobals
    THEN [raised |-> NoError, value |-> day]
    ELSE [raised |-> "NameError", value |-> 0]

\* the loop of learn over the words of the message: [words_db, raised]
RECURSIVE LearnLoop(_, _, _, _, _, _)
LearnLoop(words_db, words, spam, previous, prev_spam, day) ==
    IF words = <<>> THEN [words_db |-> words_db, raised |-> NoError]
    ELSE LET w == words[1]
             seen == w \in DOMAIN words_db
             spam_no0 == IF ~seen THEN 0
                         ELSE IF previous /\ prev_spam
                              THEN Max(0, words_db[w][2] - 1) ELSE words_db[w][2]
             ham_no0 == IF ~seen THEN 0
                        ELSE IF previous /\ ~prev_spam
                             THEN Max(0, words_db[w][3] - 1) ELSE words_db[w][3]
             spam_no == IF spam THEN spam_no0 + 1 ELSE spam_no0
             ham_no == IF spam THEN ham_no0 ELSE ham_no0 + 1
             t == CallToday(day)
         IN  IF t.raised # NoError
             THEN [words_db |-> words_db, raised |-> t.raised]
             ELSE LearnLoop(DictSet(words_db, w, <<t.value, spam_no, ham_no>>),
                            Tail(words), spam, previous, prev_spam, day)

\* a plausible slip in the test below: != for ==
SameLabelInverted(previous, prev_spam, spam) == previous /\ prev_spam # spam

\* the test `previous and prev_spam == spam` before the early return
SameLabel(previous, prev_spam, spam) == previous /\ prev_spam = spam

\* learn(words_db, msg_db, mail, spam) on day `day`: [words_db, msg_db, raised].
\* prev_spam is read after msg_db[msg_id] has been set to spam.
learn(words_db, msg_db, mail, spam, day) ==
    LET msg_id == MsgId(mail)
        previous == msg_id \in DOMAIN msg_db
        msg_db2 == DictSet(msg_db, msg_id, spam)
        prev_spam == msg_db2[msg_id]
    IN  IF SameLabel(previous, prev_spam, spam)
        THEN [words_db |-> words_db, msg_db |-> msg_db2, raised |-> NoError]
        ELSE LET pm == _process_mail(mail)
             IN  IF pm.raised # NoError
                 THEN [words_db |-> words_db, msg_db |-> msg_db2, raised |-> pm.raised]
                 ELSE LET r == LearnLoop(words_db, pm.words, spam, previous,
                                         prev_spam, day)
                      IN  [words_db |-> r.words_db, msg_db |-> msg_db2,
                           raised |-> r.raised]

\* cmd_cleanup(ap, n, words_db, msg_db): the call cleanup(words_db) looks up a
\* name the script does not bind; the days and count arguments are not read
cmd_cleanup(words_db, msg_db, days, count) ==
    IF "cleanup" \in MainGlobals
    THEN [words_db |-> words_db, msg_db |-> msg_db, raised |-> NoError]
    ELSE [words_db |-> words_db, msg_db |-> msg_db, raised |-> "NameError"]

(***************************************************************************)
(* probe.                                                                  *)
(***************************************************************************)
Min(a, b) == IF a < b THEN a ELSE b

One == FFromInt(1)

\* the literals 0.5, 0.99999 and 0.00001: the floats nearest to them
Half == FDiv(FFromInt(1), FFromInt(2))

ClampHigh == FDiv(FFromInt(99999), FFromInt(100000))

ClampLow == FDiv(FFromInt(1), FFromInt(100000))

\* spam_total (spam = TRUE) and ham_total (spam = FALSE): the loop over msg_db
Total(msg_db, spam) == Cardinality({m \in DOMAIN msg_db : msg_db[m] = spam})

\* the body of the loop of probe for a word of words_db: [raised, p]
WordProbability(rec0, spam_total0, ham_total0) ==
    Eager3(LAMBDA rec, spam_total, ham_total :
               IF spam_total = 0 \/ ham_total = 0
               THEN [raised |-> "ZeroDivisionError", p |-> FZero]
               ELSE Eager2(LAMBDA pr_w_s, pr_w_h :
                               Eager1(LAMBDA sum :
                                          IF sum.sgn = 0
                                          THEN [raised |-> "ZeroDivisionError",
                                                p |-> FZero]
                                          ELSE [raised |-> NoError,
                                                p |-> FMax(ClampLow,
                                                           FMin(ClampHigh,
                                                                FDiv(pr_w_s, sum)))],
                                      FAdd(pr_w_h, pr_w_s)),
                           FDiv(FFromInt(rec[2]), FFromInt(spam_total)),
                           FDiv(FFromInt(rec[3]), FFromInt(ham_total))),
           rec0, spam_total0, ham_total0)

\* a plausible slip in the read below: a lookup that, like dict.setdefault,
\* stores a zero record for a word it does not find
ProbeReadCreates(words_db, w) ==
    IF w \in DOMAIN words_db THEN words_db ELSE DictSet(words_db, w, <<0, 0, 0>>)

\* words_db after the test `w in words_db` and the read words_db[w] of the
\* loop of probe: both only read the mapping
ProbeRead(words_db, w) == words_db

\* the loop of probe over the words of the message: [raised, all_p, words_db]
RECURSIVE ProbeLoop(_, _, _, _, _)
ProbeLoop(words_db, words, spam_total, ham_total, all_p) ==
    IF words = <<>>
    THEN [raised |-> NoError, all_p |-> all_p, words_db |-> words_db]
    ELSE IF words[1] \notin DOMAIN words_db
         THEN ProbeLoop(ProbeRead(words_db, words[1]), Tail(words), spam_total,
                        ham_total, all_p)
    ELSE Eager1(LAMBDA r :
                    IF r.raised # NoError
                    THEN [raised |-> r.raised, all_p |-> all_p,
                          words_db |-> ProbeRead(words_db, words[1])]
                    ELSE ProbeLoop(ProbeRead(words_db, words[1]), Tail(words),
                                   spam_total, ham_total, Append(all_p, r.p)),
                WordProbability(words_db[words[1]], spam_total, ham_total))

\* list.sort(key=...) is stable: an element goes behind the elements whose
\* key is not greater.  The elements are <<key, value>>.
RECURSIVE InsertSorted(_, _)
InsertSorted(sorted0, x0) ==
    Eager2(LAMBDA sorted, x :
               IF sorted = <<>> THEN <<x>>
               ELSE IF FLess(x[1], sorted[1][1]) THEN <<x>> \o sorted
               ELSE <<sorted[1]>> \o InsertSorted(Tail(sorted), x),
           sorted0, x0)

RECURSIVE SortKeyed(_, _)
SortKeyed(keyed0, sorted0) ==
    Eager2(LAMBDA keyed, sorted :
               IF keyed = <<>> THEN sorted
               ELSE SortKeyed(Tail(keyed), InsertSorted(sorted, keyed[1])),
           keyed0, sorted0)

\* all_p.sort(key=lambda n: n-0.5)
SortByKey(all_p0) ==
    Eager1(LAMBDA all_p :
               Eager1(LAMBDA sorted : [i \in 1..Len(all_p) |-> sorted[i][2]],
                      SortKeyed([i \in 1..Len(all_p) |->
                                    <<FSub(all_p[i], Half), all_p[i]>>], <<>>)),
           all_p0)

\* l[i:] and l[:j], as Python slices a list: a negative index counts from
\* the end, and -0 is 0
SliceFrom(l, i) ==
    LET a == IF i < 0 THEN Max(Len(l) + i, 0) ELSE Min(i, Len(l))
    IN  SubSeq(l, a + 1, Len(l))

SliceTo(l, j) ==
    LET b == IF j < 0 THEN Max(Len(l) + j, 0) ELSE Min(j, Len(l))
    IN  SubSeq(l, 1, b)

\* the word selection of probe
Select(all_p0, max_words0) ==
    Eager2(LAMBDA all_p, max_words :
               IF Len(all_p) > max_words * 2
               THEN Eager1(LAMBDA sorted : SliceFrom(sorted, 0 - max_words)
                                               \o SliceTo(sorted, max_words),
                           SortByKey(all_p))
               ELSE all_p,
           all_p0, max_words0)

\* the loop p1 *= p; p2 *= 1 - p: <<p1, p2>>
RECURSIVE Products(_, _, _)
Products(all_p0, p10, p20) ==
    Eager3(LAMBDA all_p, p1, p2 :
               IF all_p = <<>> THEN <<p1, p2>>
               ELSE Products(Tail(all_p), FMul(p1, all_p[1]),
                             FMul(p2, FSub(One, all_p[1]))),
           all_p0, p10, p20)

\* return p1 / (p1 + p2): [raised, ret]
Combine(all_p) ==
    Eager1(LAMBDA pp :
               Eager1(LAMBDA sum :
                          IF sum.sgn = 0
                          THEN [raised |-> "ZeroDivisionError", ret |-> FZero]
                          ELSE [raised |-> NoError, ret |-> FDiv(pp[1], sum)],
                      FAdd(pp[1], pp[2])),
           Products(all_p, One, One))

\* probe after its loop over the words, loop being what ProbeLoop gives
ProbeFinish(loop0, msg_db, max_words) ==
    Eager1(LAMBDA loop :
               IF loop.raised # NoError
               THEN [raised |-> loop.raised, ret |-> FZero, collected |-> loop.all_p,
                     used |-> <<>>, words_db |-> loop.words_db, msg_db |-> msg_db]
               ELSE Eager1(LAMBDA used :
                               Eager1(LAMBDA c :
                                          [raised |-> c.raised, ret |-> c.ret,
                                           collected |-> loop.all_p, used |-> used,
                                           words_db |-> loop.words_db,
                                           msg_db |-> msg_db],
                                      Combine(used)),
                           Select(loop.all_p, max_words)),
           loop0)

\* probe(words_db, msg_db, mail, max_words): [raised, ret, collected, used,
\* words_db, msg_db], collected being all_p after the loop over the words,
\* used all_p after the selection, words_db and msg_db the stores afterwards
probe(words_db, msg_db, mail, max_words) ==
    Eager3(LAMBDA spam_total, ham_total, pm :
               IF pm.raised # NoError
               THEN [raised |-> pm.raised, ret |-> FZero, collected |-> <<>>,
                     used |-> <<>>, words_db |-> words_db, msg_db |-> msg_db]
               ELSE ProbeFinish(ProbeLoop(words_db, pm.words, spam_total,
                                          ham_total, <<>>),
                                msg_db, max_words),
           Total(msg_db, TRUE), Total(msg_db, FALSE),
           _process_mail(mail))

(***************************************************************************)
(* The state: the two stores the caller keeps, the day date.today() gives, *)
(* the last call and what it did, and the HTML parser with the tokenizer   *)
(* state of HTMLParser that decides which events can follow.               *)
(***************************************************************************)
VARIABLES words_db, msg_db, today, last, parser, cdata_elem, fed, event

vars == <<words_db, msg_db, today, last, parser, cdata_elem, fed, event>>

MaxCount == 1

MaxDay == 1

MaxArg == 2

MaxWordsArg == 2

MaxEvents == 4

StoreKeys == {"pills", "cheap"}

LedgerIds == {"id1", "id2"}

\* the token stores a caller may hand over: any records with counts >= 0
Stores ==
    UNION {[K -> {<<0, s, h>> : s \in 0..MaxCount, h \in 0..MaxCount}] :
           K \in SUBSET StoreKeys}

Ledgers == UNION {[K -> BOOLEAN] : K \in SUBSET LedgerIds}

NoCall ==
    [op |-> "none", mail |-> "", spam |-> FALSE, max_words |-> 0, days |-> 0,
     count |-> 0, raised |-> NoError, twice |-> FALSE, ret |-> FZero,
     collected |-> <<>>, used |-> <<>>]

NoEvent == Data(<<>>)

HtmlIdle ==
    /\ parser = NewParser
    /\ cdata_elem = ""
    /\ fed = 0
    /\ event = NoEvent

Init ==
    /\ words_db \in Stores
    /\ msg_db = EmptyDict
    /\ today = 0
    /\ last = NoCall
    /\ HtmlIdle

\* a call learn(words_db, msg_db, mail, spam); twice tells that the call
\* before it was learn on the same message with the same label
Learn(name, spam) ==
    \E r \in {learn(words_db, msg_db, Mail(name), spam, today)} :
        /\ words_db' = r.words_db
        /\ msg_db' = r.msg_db
        /\ last' = [NoCall EXCEPT !.op = "learn", !.mail = name, !.spam = spam,
                                  !.raised = r.raised,
                                  !.twice = (last.op = "learn" /\ last.mail = name
                                             /\ last.spam = spam)]
        /\ UNCHANGED <<today, parser, cdata_elem, fed, event>>

\* the command line `cleanup days count`
CmdCleanup(days, count) ==
    \E r \in {cmd_cleanup(words_db, msg_db, days, count)} :
        /\ words_db' = r.words_db
        /\ msg_db' = r.msg_db
        /\ last' = [NoCall EXCEPT !.op = "cleanup", !.days = days, !.count = count,
                                  !.raised = r.raised]
        /\ UNCHANGED <<today, parser, cdata_elem, fed, event>>

\* midnight: _today() gives the next day-ordinal
Tick ==
    /\ today < MaxDay
    /\ today' = today + 1
    /\ UNCHANGED <<words_db, msg_db, last, parser, cdata_elem, fed, event>>

Next ==
    \/ \E name \in MailNames, spam \in BOOLEAN : Learn(name, spam)
    \/ \E days \in 0..MaxArg, count \in 0..MaxArg : CmdCleanup(days, count)
    \/ Tick

Spec == Init /\ [][Next]_vars

(***************************************************************************)
(* probe is a function of the stores, the message and max_words: the       *)
(* caller hands over any stores and probes once.                           *)
(***************************************************************************)
ProbeInit ==
    /\ words_db \in Stores
    /\ msg_db \in Ledgers
    /\ today = 0
    /\ last = NoCall
    /\ HtmlIdle

Probe(name, max_words) ==
    /\ last.op = "none"
    /\ \E r \in {probe(words_db, msg_db, Mail(name), max_words)} :
           /\ words_db' = r.words_db
           /\ msg_db' = r.msg_db
           /\ last' = [NoCall EXCEPT !.op = "probe", !.mail = name,
                                     !.max_words = max_words, !.raised = r.raised,
                                     !.ret = r.ret, !.collected = r.collected,
                                     !.used = r.used]
    /\ UNCHANGED <<today, parser, cdata_elem, fed, event>>

ProbeNext == \E name \in MailNames, max_words \in 0..MaxWordsArg : Probe(name, max_words)

SpecProbe == ProbeInit /\ [][ProbeNext]_vars

(***************************************************************************)
(* The HTML parser, one event at a time.  Inside a script element          *)
(* HTMLParser is in CDATA mode: it reports text, and the end tag of the    *)
(* element, and nothing else.                                              *)
(***************************************************************************)
HtmlEvents ==
    {StartTag("script", <<>>), StartTag("template", <<>>), StartTag("p", <<>>),
     StartTag("img", <<<<"alt", TextCheapPills>>>>),
     EndTag("script"), EndTag("template"), EndTag("p"),
     Data(TextMeetCheap)}

HtmlInit ==
    /\ words_db = EmptyDict
    /\ msg_db = EmptyDict
    /\ today = 0
    /\ last = NoCall
    /\ HtmlIdle

FeedEvent(ev) ==
    /\ fed < MaxEvents
    /\ cdata_elem # "" => ev.type = "data" \/ (ev.type = "end" /\ ev.tag = cdata_elem)
    /\ parser' = Handle(parser, ev)
    /\ cdata_elem' = IF ev.type = "start" /\ ev.tag = "script" THEN "script"
                     ELSE IF ev.type = "end" /\ ev.tag = cdata_elem THEN ""
                     ELSE cdata_elem
    /\ fed' = fed + 1
    /\ event' = ev
    /\ UNCHANGED <<words_db, msg_db, today, last>>

HtmlNext == \E ev \in HtmlEvents : FeedEvent(ev)

SpecHtml == HtmlInit /\ [][HtmlNext]_vars

(***************************************************************************)
(* The properties.  A step of Spec is a call of learn or of the cleanup    *)
(* command exactly when it leaves the day alone and last names the call.   *)
(***************************************************************************)
LearnStep == last'.op = "learn" /\ today' = today

CleanupStep == last'.op = "cleanup" /\ today' = today

\* the spamCount and hamCount of every token
Counts(db) == [w \in DOMAIN db |-> <<db[w][2], db[w][3]>>]

\* The token store the learning procedure of the specification leaves: for
\* every token occurrence, fetch the record or start from zero counts, on a
\* reclassification decrement the count of the old label (floored at 0),
\* increment the count of the new label, and stamp the day.
RECURSIVE Counted(_, _, _, _, _)
Counted(db0, words0, spam, reclass, day) ==
    Eager2(LAMBDA db, words :
               IF words = <<>> THEN db
               ELSE LET rec == IF words[1] \in DOMAIN db THEN db[words[1]]
                               ELSE <<0, 0, 0>>
                        s == IF reclass /\ ~spam THEN Max(0, rec[2] - 1) ELSE rec[2]
                        h == IF reclass /\ spam THEN Max(0, rec[3] - 1) ELSE rec[3]
                    IN  Counted(DictSet(db, words[1],
                                        <<day, IF spam THEN s + 1 ELSE s,
                                          IF spam THEN h ELSE h + 1>>),
                                Tail(words), spam, reclass, day),
           db0, words0)

\* C1: a call of learn on a message whose identifier is not in the ledger
\* (and whose features the extractor gives) completes without error and
\* leaves every token occurrence counted once for the given label, the other
\* count unchanged, and the day-ordinal of the call as lastSeenDay.
C1_LearnNewMessageCounts ==
    [][(/\ LearnStep
        /\ MsgId(Mail(last'.mail)) \notin DOMAIN msg_db
        /\ _process_mail(Mail(last'.mail)).raised = NoError)
       => /\ last'.raised = NoError
          /\ words_db' = Counted(words_db, _process_mail(Mail(last'.mail)).words,
                                 last'.spam, FALSE, today)]_vars

\* C2: a call of learn on a message the ledger holds with the opposite label
\* decrements, for every token of the message, the count of the old label
\* (floored at 0) and increments the count of the new label, and the ledger
\* holds the new label afterwards.
C2_ReclassificationMovesCounts ==
    [][(/\ LearnStep
        /\ MsgId(Mail(last'.mail)) \in DOMAIN msg_db
        /\ msg_db[MsgId(Mail(last'.mail))] # last'.spam
        /\ _process_mail(Mail(last'.mail)).raised = NoError)
       => /\ msg_db'[MsgId(Mail(last'.mail))] = last'.spam
          /\ Counts(words_db')
                 = Counts(Counted(words_db, _process_mail(Mail(last'.mail)).words,
                                  last'.spam, TRUE, today))]_vars

\* C3: a call of learn that follows a call of learn on the same message with
\* the same label skips the statistics updates: it returns without error and
\* leaves the spamCount and hamCount of every token as the first call left
\* them.
C3_LearnTwiceIsLearnOnce ==
    [][(LearnStep /\ last'.twice)
       => last'.raised = NoError /\ Counts(words_db') = Counts(words_db)]_vars

\* C3 happens: learn has been called twice in a row on a message with tokens,
\* with the same label
C3_LearnedTwice ==
    /\ last.op = "learn"
    /\ last.twice
    /\ _process_mail(Mail(last.mail)).words # <<>>
    /\ MsgId(Mail(last.mail)) \in DOMAIN msg_db

\* C4: with no spam-labelled or no ham-labelled record in the ledger, probe
\* fails and returns no value, whatever the message and the token store.
C4_ZeroTotalsProbeFails ==
    (last.op = "probe" /\ (Total(msg_db, TRUE) = 0 \/ Total(msg_db, FALSE) = 0))
    => last.raised # NoError

\* C5: every value probe returns is strictly greater than 0 and strictly
\* less than 1.
C5_ProbeStrictlyBetween ==
    (last.op = "probe" /\ last.raised = NoError)
    => FLess(FZero, last.ret) /\ FLess(last.ret, One)

\* u holds the values of l at the indices I, as often as they are there
SameBag(u, l, I) ==
    \A v \in {u[i] : i \in 1..Len(u)} \cup {l[i] : i \in I} :
        Cardinality({i \in 1..Len(u) : u[i] = v}) = Cardinality({i \in I : l[i] = v})

\* u holds the n smallest and the n largest values of l, and nothing else
Extremes(u, l, n) ==
    \E lo, hi \in SUBSET (1..Len(l)) :
        /\ lo \cap hi = {}
        /\ Cardinality(lo) = n
        /\ Cardinality(hi) = n
        /\ \A i \in lo, j \in (1..Len(l)) \ lo : ~FLess(l[j], l[i])
        /\ \A i \in hi, j \in (1..Len(l)) \ hi : ~FLess(l[i], l[j])
        /\ SameBag(u, l, lo \cup hi)

\* C6: when probe collects more than 2 * max_words probabilities, exactly
\* 2 * max_words of them enter the combiner, the max_words smallest and the
\* max_words largest; otherwise all of them enter it, in their order.
C6_SelectionTakesBothEnds ==
    (last.op = "probe" /\ last.raised = NoError)
    => IF Len(last.collected) > 2 * last.max_words
       THEN /\ Len(last.used) = 2 * last.max_words
            /\ Extremes(last.used, last.collected, last.max_words)
       ELSE last.used = last.collected

\* the token store without the records last seen more than days before day
\* whose combined count is below count
Cleaned(db, day, days, count) ==
    [w \in {k \in DOMAIN db : ~(db[k][1] < day - days /\ db[k][2] + db[k][3] < count)}
        |-> db[w]]

\* C7: the cleanup command removes every token statistic last seen more than
\* `days` days before the current day whose spamCount + hamCount is below
\* `count`, and leaves every other statistic and the ledger unchanged.
C7_CleanupRemovesStale ==
    [][CleanupStep
       => /\ words_db' = Cleaned(words_db, today, last'.days, last'.count)
          /\ msg_db' = msg_db]_vars

\* C8: a call of probe, whether it returns or raises, leaves the token store
\* (its keys and every record) and the ledger as they were.
C8_ProbeReadsOnly ==
    [][last'.op = "probe" => words_db' = words_db /\ msg_db' = msg_db]_vars

\* C8 happens: probe has looked up words the store holds and words it does
\* not hold
C8_ProbedKnownAndUnknown ==
    /\ last.op = "probe"
    /\ last.collected # <<>>
    /\ \E i \in 1..Len(_process_mail(Mail(last.mail)).words) :
           _process_mail(Mail(last.mail)).words[i] \notin DOMAIN words_db

\* C9: with spam and ham records in the ledger, a message with a token whose
\* record has spamCount = 0 and hamCount = 0 is probed to a result, the
\* token's probability being 0 clamped to 0.00001.
C9_ZeroRecordCountsAsZero ==
    (/\ last.op = "probe"
     /\ Total(msg_db, TRUE) > 0
     /\ Total(msg_db, FALSE) > 0
     /\ _process_mail(Mail(last.mail)).raised = NoError
     /\ \E i \in 1..Len(_process_mail(Mail(last.mail)).words) :
            /\ _process_mail(Mail(last.mail)).words[i] \in DOMAIN words_db
            /\ words_db[_process_mail(Mail(last.mail)).words[i]][2] = 0
            /\ words_db[_process_mail(Mail(last.mail)).words[i]][3] = 0)
    => /\ last.raised = NoError
       /\ \E i \in 1..Len(last.collected) : last.collected[i] = ClampLow

\* C10: a text event is skipped exactly when the script/template depth is
\* above 0 and tokenized and appended otherwise, also after unmatched end
\* tags; the alt text of an img start tag is appended at any depth.
C10_TextSkippedInsideOnly ==
    [][fed' = fed + 1
       => /\ event'.type = "data"
             => parser'.words = IF parser.ignore > 0 THEN parser.words
                                ELSE parser.words \o _text_parse(event'.data)
          /\ (event'.type = "start" /\ event'.tag = "img")
             => parser'.words = parser.words \o AltWords(event'.attrs)]_vars

====
